---- MODULE Spec2Model ----
(***************************************************************************)
(* Model of the Apollo cloud GraphQL client                                *)
(* (apollo/src/graphql/client.rs).                                         *)
(*                                                                         *)
(* A Rust String is a sequence of one-character strings, so that JSON      *)
(* escaping, quoting and joining are computed character by character.      *)
(* Option<T> is a sequence of length at most one: None is << >> and        *)
(* Some(x) is << x >>.  Result<T, E> is a record tagged "Ok" or "Err".     *)
(***************************************************************************)
EXTENDS Integers, Sequences, FiniteSets, TLC

----------------------------------------------------------------------------
(* Bounds of the model.                                                    *)

\* longest graph_id / account_id passed to create_new_graph
MaxIdLen == 1
\* longest list of memberships in a decoded response
MaxMemberships == 3
\* longest `errors` list in a decoded response
MaxErrors == 2
\* longest apiKeys list in a decoded response
MaxKeys == 2

----------------------------------------------------------------------------
(* Character pools the inputs are drawn from.                              *)

\* characters of graph and account ids: the two that end or escape inside a
\* JSON string literal (the query texts hold the plain ones and the newline)
IdChars == {"\"", "\\"}
\* server error messages: the newline is also the separator create_new_graph
\* joins with
Messages == {<< >>, <<"m">>, <<"\n">>}
AccountIds == {<<"a">>, <<"b">>}
Tokens == {<<"t">>, <<"u">>}
ServiceIds == {<<"g">>}
\* texts serde_json may render a decode failure as
DecodeErrorTexts == {<<"e">>}
Endpoints == {"https://engine.example/api", "https://other.example/api"}
\* the second token holds a byte HeaderValue::from_str rejects
AuthTokens == {<<"k">>, <<"k", "\n">>}

SeqsUpTo(S, n) == UNION {[1..k -> S] : k \in 0..n}

None == << >>
Some(x) == << x >>
is_some(o) == Len(o) = 1
is_none(o) == Len(o) = 0
OptionOf(S) == {None} \cup {Some(x) : x \in S}

Ok(v) == [tag |-> "Ok", value |-> v]
Err(e) == [tag |-> "Err", error |-> e]

----------------------------------------------------------------------------
(* String constants of the program.                                        *)

GET_ORG_MEMBERSHIPS_QUERY ==
    <<
       "\n", "q", "u", "e", "r", "y", " ", "G", "e", "t", "O", "r",
       "g", "M", "e", "m", "b", "e", "r", "s", "h", "i", "p", "s",
       " ", "{", "\n", " ", " ", "m", "e", " ", "{", "\n", " ", " ",
       " ", " ", ".", ".", ".", "o", "n", " ", "U", "s", "e", "r",
       " ", "{", "\n", " ", " ", " ", " ", " ", " ", "m", "e", "m",
       "b", "e", "r", "s", "h", "i", "p", "s", " ", "{", "\n", " ",
       " ", " ", " ", " ", " ", " ", " ", " ", "a", "c", "c", "o",
       "u", "n", "t", " ", "{", "\n", " ", " ", " ", " ", " ", " ",
       " ", " ", " ", " ", " ", "i", "d", "\n", " ", " ", " ", " ",
       " ", " ", " ", " ", " ", "}", "\n", " ", " ", " ", " ", " ",
       " ", "}", "\n", " ", " ", " ", " ", "}", "\n", " ", " ", "}",
       "\n", "}", "\n" >>

CREATE_GRAPH_QUERY ==
    <<
       "\n", "m", "u", "t", "a", "t", "i", "o", "n", " ", "C", "r",
       "e", "a", "t", "e", "G", "r", "a", "p", "h", "(", "$", "a",
       "c", "c", "o", "u", "n", "t", "I", "D", ":", " ", "I", "D",
       "!", ",", " ", "$", "g", "r", "a", "p", "h", "I", "D", ":",
       " ", "I", "D", "!", ")", " ", "{", "\n", " ", " ", "n", "e",
       "w", "S", "e", "r", "v", "i", "c", "e", "(", "a", "c", "c",
       "o", "u", "n", "t", "I", "d", ":", " ", "$", "a", "c", "c",
       "o", "u", "n", "t", "I", "D", ",", " ", "i", "d", ":", " ",
       "$", "g", "r", "a", "p", "h", "I", "D", ")", " ", "{", "\n",
       " ", " ", " ", " ", "i", "d", "\n", " ", " ", " ", " ", "a",
       "p", "i", "K", "e", "y", "s", " ", "{", "\n", " ", " ", " ",
       " ", " ", " ", "t", "o", "k", "e", "n", "\n", " ", " ", " ",
       " ", "}", "\n", " ", " ", "}", "\n", "}", "\n" >>

COULD_NOT_FETCH ==
    <<
       "C", "o", "u", "l", "d", " ", "n", "o", "t", " ", "f", "e",
       "t", "c", "h", " ", "o", "r", "g", "a", "n", "i", "z", "a",
       "t", "i", "o", "n", "s" >>

COULD_NOT_AUTHENTICATE ==
    <<
       "C", "o", "u", "l", "d", " ", "n", "o", "t", " ", "a", "u",
       "t", "h", "e", "n", "t", "i", "c", "a", "t", "e", ".", " ",
       "P", "l", "e", "a", "s", "e", " ", "c", "h", "e", "c", "k",
       " ", "t", "h", "a", "t", " ", "y", "o", "u", "r", " ", "a",
       "u", "t", "h", " ", "t", "o", "k", "e", "n", " ", "i", "s",
       " ", "u", "p", "-", "t", "o", "-", "d", "a", "t", "e" >>

GOT_NO_DATA ==
    <<
       "G", "o", "t", " ", "n", "o", " ", "d", "a", "t", "a", "?",
       "?", "?", "?" >>

NO_API_KEY ==
    <<
       "s", "e", "r", "v", "i", "c", "e", " ", "c", "r", "e", "a",
       "t", "e", "d", " ", "b", "u", "t", " ", "n", "o", " ", "A",
       "P", "I", " ", "k", "e", "y", " ", "w", "a", "s", " ", "r",
       "e", "t", "u", "r", "n", "e", "d" >>

KEY_QUERY ==
    <<
       "q", "u", "e", "r", "y" >>

KEY_VARIABLES ==
    <<
       "v", "a", "r", "i", "a", "b", "l", "e", "s" >>

KEY_GRAPH_ID ==
    <<
       "g", "r", "a", "p", "h", "I", "D" >>

KEY_ACCOUNT_ID ==
    <<
       "a", "c", "c", "o", "u", "n", "t", "I", "D" >>

NULL_LITERAL ==
    <<
       "n", "u", "l", "l" >>

----------------------------------------------------------------------------
(* serde_json::to_string, for the shapes the client serializes.            *)

QUOTE == "\""
BACKSLASH == "\\"

escape_char_quote_only(c) ==
    CASE c = QUOTE -> <<BACKSLASH, QUOTE>>
      [] OTHER     -> <<c>>

\* serde_json writes the quote, the backslash and the control characters as
\* two-character escapes and every other character as itself.
escape_char(c) ==
    CASE c = QUOTE     -> <<BACKSLASH, QUOTE>>
      [] c = BACKSLASH -> <<BACKSLASH, BACKSLASH>>
      [] c = "\n"      -> <<BACKSLASH, "n">>
      [] c = "\r"      -> <<BACKSLASH, "r">>
      [] c = "\t"      -> <<BACKSLASH, "t">>
      [] OTHER         -> <<c>>

\* the escapes of the characters of s, in order (computed by halves)
RECURSIVE format_escaped_str_contents(_)
format_escaped_str_contents(s) ==
    IF s = << >> THEN << >>
    ELSE IF Len(s) = 1 THEN escape_char(s[1])
    ELSE LET half == Len(s) \div 2
         IN  format_escaped_str_contents(SubSeq(s, 1, half))
             \o format_escaped_str_contents(SubSeq(s, half + 1, Len(s)))

\* a Rust string as a JSON string literal
str_to_string(s) == <<QUOTE>> \o format_escaped_str_contents(s) \o <<QUOTE>>

\* Option<&String>: None is written as the literal null, Some(s) as s
option_str_to_string(o) ==
    IF is_some(o) THEN str_to_string(o[1]) ELSE NULL_LITERAL

\* as if variables carried skip_serializing_if = "Option::is_none"
GraphqlQuery_to_string_skip_none(q) ==
    <<"{">> \o str_to_string(KEY_QUERY) \o <<":">> \o str_to_string(q.query)
    \o (IF is_some(q.variables)
        THEN <<",">> \o str_to_string(KEY_VARIABLES) \o <<":">>
             \o str_to_string(q.variables[1])
        ELSE << >>)
    \o <<"}">>

\* #[derive(Serialize)] struct GraphqlQuery { query, variables }: every field
\* is written, in declaration order
GraphqlQuery_to_string(q) ==
    <<"{">> \o str_to_string(KEY_QUERY) \o <<":">> \o str_to_string(q.query)
    \o <<",">> \o str_to_string(KEY_VARIABLES) \o <<":">>
    \o option_str_to_string(q.variables) \o <<"}">>

\* CreateGraphVariables { graphID, accountID } (declared in graphql::types),
\* fields written in the order the struct literal gives them
CreateGraphVariables_to_string(v) ==
    <<"{">> \o str_to_string(KEY_GRAPH_ID) \o <<":">> \o str_to_string(v.graphID)
    \o <<",">> \o str_to_string(KEY_ACCOUNT_ID) \o <<":">>
    \o str_to_string(v.accountID) \o <<"}">>

----------------------------------------------------------------------------
(* A JSON decoder for objects whose members are strings or null: what the  *)
(* receiving side does with a request body.                                *)

ParseFail == [ok |-> FALSE, val |-> << >>, next |-> 0]
JsonString(s) == [type |-> "string", str |-> s]
JsonNull == [type |-> "null", str |-> << >>]

Min(S) == CHOOSE m \in S : \A x \in S : m <= x

\* In a string literal whose first character after the opening quote is
\* s[i]: s[j] is the second character of an escape when the backslashes
\* that stand right before it are odd in number
escaped(s, i, j) ==
    /\ j > i
    /\ s[j - 1] = BACKSLASH
    /\ \E k \in i..(j - 1) :
          /\ \A l \in k..(j - 1) : s[l] = BACKSLASH
          /\ k = i \/ s[k - 1] # BACKSLASH
          /\ (j - k) % 2 = 1
starts_escape(s, i, j) == s[j] = BACKSLASH /\ ~escaped(s, i, j)

unescape_char(c) ==
    CASE c = "n" -> "\n"
      [] c = "r" -> "\r"
      [] c = "t" -> "\t"
      [] OTHER   -> c

\* s[i] is the first character after the opening quote: reads up to the
\* first quote that is not escaped, undoing the escapes; raw control
\* characters and unknown escapes are errors
parse_str_body(s, i) ==
    LET closing == {j \in i..Len(s) : s[j] = QUOTE /\ ~escaped(s, i, j)}
    IN  IF closing = {} THEN ParseFail
        ELSE LET close == Min(closing)
                 positions == [k \in 1..(close - i) |-> i + k - 1]
                 Kept(p) == ~starts_escape(s, i, p)
                 kept == SelectSeq(positions, Kept)
                 valid == \A j \in i..(close - 1) :
                              IF escaped(s, i, j)
                              THEN s[j] \in {QUOTE, BACKSLASH, "n", "r", "t"}
                              ELSE s[j] \notin {"\n", "\r", "\t"}
             IN  IF ~valid THEN ParseFail
                 ELSE [ok |-> TRUE,
                       val |-> [k \in 1..Len(kept) |->
                                   IF escaped(s, i, kept[k])
                                   THEN unescape_char(s[kept[k]])
                                   ELSE s[kept[k]]],
                       next |-> close + 1]

parse_str(s, i) ==
    IF i <= Len(s) /\ s[i] = QUOTE THEN parse_str_body(s, i + 1)
    ELSE ParseFail

parse_value(s, i) ==
    IF i <= Len(s) /\ s[i] = QUOTE THEN
        LET r == parse_str(s, i)
        IN  IF r.ok THEN [ok |-> TRUE, val |-> JsonString(r.val), next |-> r.next]
            ELSE ParseFail
    ELSE IF i + 3 <= Len(s) /\ SubSeq(s, i, i + 3) = NULL_LITERAL
    THEN [ok |-> TRUE, val |-> JsonNull, next |-> i + 4]
    ELSE ParseFail

\* s[i] is the first character of a member; acc holds the members read so far
RECURSIVE parse_members(_, _, _)
parse_members(s, i, acc) ==
    LET k == parse_str(s, i)
    IN  IF ~k.ok \/ k.next > Len(s) \/ s[k.next] # ":" THEN ParseFail
        ELSE LET v == parse_value(s, k.next + 1)
                 members == Append(acc, [key |-> k.val, value |-> v.val])
             IN  IF ~v.ok \/ v.next > Len(s) THEN ParseFail
                 ELSE IF s[v.next] = "," THEN parse_members(s, v.next + 1, members)
                 ELSE IF s[v.next] = "}" /\ v.next = Len(s)
                 THEN [ok |-> TRUE, val |-> members, next |-> v.next + 1]
                 ELSE ParseFail

\* the whole text as one JSON object: the sequence of its members
json_from_str(s) ==
    IF Len(s) >= 2 /\ s[1] = "{" THEN parse_members(s, 2, << >>) ELSE ParseFail

has_key(members, key) == \E j \in 1..Len(members) : members[j].key = key
\* the value of the member named key
get_key(members, key) ==
    members[CHOOSE j \in 1..Len(members) : members[j].key = key].value

----------------------------------------------------------------------------
(* Responses the server may send, already decoded into the response types  *)
(* of graphql::types.                                                      *)

Memberships == {[account |-> [id |-> a]] : a \in AccountIds}
GraphqlErrors == {[message |-> m] : m \in Messages}
ErrorLists == OptionOf(SeqsUpTo(GraphqlErrors, MaxErrors))
ApiKeys == {[token |-> t] : t \in Tokens}

GetOrgMembershipResponses ==
    [data : OptionOf([me : OptionOf([memberships :
                                        SeqsUpTo(Memberships, MaxMemberships)])]),
     errors : ErrorLists]

CreateGraphResponses ==
    [data : OptionOf([newService : [id : ServiceIds,
                                    apiKeys : SeqsUpTo(ApiKeys, MaxKeys)]]),
     errors : ErrorLists]

\* what can come back from one POST: the send fails, the body cannot be
\* read, the body is not JSON of the expected shape, or it decodes
SendFailed == [kind |-> "send_failed", error |-> << >>, value |-> None]
TextFailed == [kind |-> "text_failed", error |-> << >>, value |-> None]
Undecodable(e) == [kind |-> "undecodable", error |-> e, value |-> None]
Decoded(r) == [kind |-> "decoded", error |-> << >>, value |-> Some(r)]
NoReply == [kind |-> "none", error |-> << >>, value |-> None]

----------------------------------------------------------------------------
VARIABLES
    pc,            \* "start", "idle", "awaiting", "returned" or "panicked"
    endpoint_url,  \* ApolloCloudClient.endpoint_url
    headers,       \* default headers of ApolloCloudClient.client
    op,            \* the operation being executed
    args,          \* its arguments
    requests,      \* method and URL of each request the invocation has sent
    body,          \* Option of the body of the request in flight
    reply,         \* the outcome of its POST
    result,        \* Option of the value it returned
    panic_line     \* source line of the panic that ended the process, or 0

vars == <<pc, endpoint_url, headers, op, args, requests, body, reply, result,
          panic_line>>

NoArgs == [graph_id |-> << >>, account_id |-> << >>]


Init ==
    /\ pc = "start"
    /\ endpoint_url = ""
    /\ headers = << >>
    /\ op = "none"
    /\ args = NoArgs
    /\ requests = << >>
    /\ body = None
    /\ reply = NoReply
    /\ result = None
    /\ panic_line = 0

----------------------------------------------------------------------------
(* ApolloCloudClient::new                                                  *)

\* HeaderValue::from_str accepts visible ASCII and tab only
header_value_valid(s) == \A i \in 1..Len(s) : s[i] \notin {"\n", "\r"}

new(url, auth_token, build_ok) ==
    /\ pc = "start"
    /\ IF ~header_value_valid(auth_token)
       THEN /\ pc' = "panicked" /\ panic_line' = 32
            /\ UNCHANGED <<endpoint_url, headers>>
       ELSE IF ~build_ok
       THEN /\ pc' = "panicked" /\ panic_line' = 38
            /\ UNCHANGED <<endpoint_url, headers>>
       ELSE /\ pc' = "idle"
            /\ endpoint_url' = url
            /\ headers' = ("X-API-KEY" :> auth_token)
                          @@ ("CONTENT-TYPE" :> "application/json")
            /\ UNCHANGED panic_line
    /\ UNCHANGED <<op, args, requests, body, reply, result>>

----------------------------------------------------------------------------
(* send_query and the two helpers that build its envelope                  *)

execute_operation(operation_string, variables) ==
    LET vars_string == CreateGraphVariables_to_string(variables)
    IN  [query |-> operation_string, variables |-> Some(vars_string)]

execute_operation_no_variables(operation_string) ==
    [query |-> operation_string, variables |-> None]

\* serde_json::to_string(&query), the body of the request
query_body(query) == GraphqlQuery_to_string(query)

\* self.client.post(&self.endpoint_url)
post == [method |-> "POST", url |-> endpoint_url, headers |-> headers]

\* .send(): the request goes out once
send_twice(sent, request) == Append(Append(sent, request), request)
send(sent, request) == Append(sent, request)

\* the rest of send_query, once the outcome r of the send is known:
\* a panic, or the Result handed to the caller
send_query(r) ==
    CASE r.kind = "send_failed" -> [panic |-> 51, res |-> Err(<< >>)]
      [] r.kind = "text_failed" -> [panic |-> 54, res |-> Err(<< >>)]
      [] r.kind = "undecodable" -> [panic |-> 0, res |-> Err(r.error)]
      [] r.kind = "decoded"     -> [panic |-> 0, res |-> Ok(r.value[1])]

Returned(r) == [pc |-> "returned", result |-> Some(r), panic_line |-> 0]
Panicked(line) == [pc |-> "panicked", result |-> None, panic_line |-> line]

----------------------------------------------------------------------------
(* get_org_memberships                                                     *)

\* me.memberships.into_iter().map(|it| it.account.id).collect::<Vec<String>>()
account_ids(memberships) ==
    [i \in 1..Len(memberships) |-> memberships[i].account.id]

RECURSIVE HashSet_from_iter_skip_first(_)
HashSet_from_iter_skip_first(v) ==
    IF Len(v) <= 1 THEN {}
    ELSE {v[Len(v)]} \cup HashSet_from_iter_skip_first(SubSeq(v, 1, Len(v) - 1))

\* HashSet::from_iter: inserts the elements one after the other
RECURSIVE HashSet_from_iter(_)
HashSet_from_iter(v) ==
    IF v = << >> THEN {}
    ELSE HashSet_from_iter(Tail(v)) \cup {Head(v)}

get_org_memberships(r) ==
    LET sq == send_query(r)
    IN  IF sq.panic # 0 THEN Panicked(sq.panic)
        ELSE IF sq.res.tag = "Err" THEN Returned(Err(COULD_NOT_FETCH))
        ELSE LET response == sq.res.value
             IN  IF is_none(response.data) THEN Panicked(83)
                 ELSE LET me == response.data[1].me
                      IN  IF is_some(me)
                          THEN Returned(Ok(HashSet_from_iter(
                                               account_ids(me[1].memberships))))
                          ELSE Returned(Err(COULD_NOT_AUTHENTICATE))

get_org_memberships_call ==
    /\ pc \in {"idle", "returned"}
    /\ pc' = "awaiting"
    /\ op' = "get_org_memberships"
    /\ args' = NoArgs
    /\ body' = Some(query_body(execute_operation_no_variables(
                                   GET_ORG_MEMBERSHIPS_QUERY)))
    /\ requests' = send(<< >>, post)
    /\ reply' = NoReply
    /\ result' = None
    /\ UNCHANGED <<endpoint_url, headers, panic_line>>

get_org_memberships_reply ==
    /\ pc = "awaiting"
    /\ op = "get_org_memberships"
    /\ \E r \in {SendFailed, TextFailed}
              \cup {Undecodable(e) : e \in DecodeErrorTexts}
              \cup {Decoded(v) : v \in GetOrgMembershipResponses} :
          LET out == get_org_memberships(r)
          IN  /\ reply' = r
              /\ pc' = out.pc
              /\ result' = out.result
              /\ panic_line' = out.panic_line
    /\ body' = None
    /\ args' = NoArgs
    /\ UNCHANGED <<endpoint_url, headers, op, requests>>

----------------------------------------------------------------------------
(* create_new_graph                                                        *)

messages(errors) == [i \in 1..Len(errors) |-> errors[i].message]

RECURSIVE join_no_separator(_, _)
join_no_separator(v, sep) ==
    IF v = << >> THEN << >>
    ELSE Head(v) \o join_no_separator(Tail(v), sep)

\* [String]::join(sep)
RECURSIVE join(_, _)
join(v, sep) ==
    IF v = << >> THEN << >>
    ELSE IF Len(v) = 1 THEN v[1]
    ELSE v[1] \o sep \o join(Tail(v), sep)

last_token(apiKeys) == apiKeys[Len(apiKeys)].token
\* data.newService.apiKeys[0].token
first_token(apiKeys) == apiKeys[1].token

create_new_graph(r) ==
    LET sq == send_query(r)
    IN  IF sq.panic # 0 THEN Panicked(sq.panic)
        ELSE IF sq.res.tag = "Err"
        THEN Returned(Err([message |-> sq.res.error, user_error |-> FALSE]))
        ELSE LET response == sq.res.value
             IN  IF is_some(response.errors)
                 THEN Returned(Err([message |-> join(messages(response.errors[1]),
                                                     <<"\n">>),
                                    user_error |-> FALSE]))
                 ELSE IF is_none(response.data)
                 THEN Returned(Err([message |-> GOT_NO_DATA,
                                    user_error |-> FALSE]))
                 ELSE LET apiKeys == response.data[1].newService.apiKeys
                      IN  IF apiKeys = << >> THEN Panicked(119)
                          ELSE Returned(Ok(first_token(apiKeys)))

create_new_graph_call(graph_id, account_id) ==
    /\ pc \in {"idle", "returned"}
    /\ pc' = "awaiting"
    /\ op' = "create_new_graph"
    /\ args' = [graph_id |-> graph_id, account_id |-> account_id]
    /\ LET variables == [graphID |-> graph_id, accountID |-> account_id]
       IN  body' = Some(query_body(execute_operation(CREATE_GRAPH_QUERY,
                                                     variables)))
    /\ requests' = send(<< >>, post)
    /\ reply' = NoReply
    /\ result' = None
    /\ UNCHANGED <<endpoint_url, headers, panic_line>>

create_new_graph_reply ==
    /\ pc = "awaiting"
    /\ op = "create_new_graph"
    /\ \E r \in {SendFailed, TextFailed}
              \cup {Undecodable(e) : e \in DecodeErrorTexts}
              \cup {Decoded(v) : v \in CreateGraphResponses} :
          LET out == create_new_graph(r)
          IN  /\ reply' = r
              /\ pc' = out.pc
              /\ result' = out.result
              /\ panic_line' = out.panic_line
    /\ body' = None
    /\ args' = NoArgs
    /\ UNCHANGED <<endpoint_url, headers, op, requests>>

----------------------------------------------------------------------------
Ids == SeqsUpTo(IdChars, MaxIdLen)

Next ==
    \/ \E url \in Endpoints, auth_token \in AuthTokens, build_ok \in BOOLEAN :
          new(url, auth_token, build_ok)
    \/ get_org_memberships_call
    \/ get_org_memberships_reply
    \/ \E graph_id \in Ids, account_id \in Ids :
          create_new_graph_call(graph_id, account_id)
    \/ create_new_graph_reply

Spec == Init /\ [][Next]_vars

----------------------------------------------------------------------------
(* Properties.                                                             *)

GetDecoded == op = "get_org_memberships" /\ reply.kind = "decoded"
CreateDecoded == op = "create_new_graph" /\ reply.kind = "decoded"
ReturnedOk == pc = "returned" /\ is_some(result) /\ result[1].tag = "Ok"
ReturnedErr == pc = "returned" /\ is_some(result) /\ result[1].tag = "Err"

MeAbsent(response) ==
    IF is_none(response.data) THEN TRUE ELSE is_none(response.data[1].me)

\* C1: when the decoded membership response has `data` absent or `data.me`
\* absent, get_org_memberships returns the authentication-failure error as
\* an Err value and does not panic.
C1_AbsentDataIsAuthFailure ==
    (GetDecoded /\ MeAbsent(reply.value[1]))
        => (ReturnedErr /\ result[1].error = COULD_NOT_AUTHENTICATE)

\* C2: when the HTTP send fails at the transport level, the operation
\* returns an Err to its caller and the process is not aborted.
C2_SendFailureIsRecoverable ==
    reply.kind = "send_failed" => (ReturnedErr /\ panic_line = 0)

\* C3: a create-graph response with no errors, data present and an empty
\* apiKeys list makes create_new_graph return the explicit error
\* "service created but no API key was returned", not panic on the index.
C3_EmptyKeyListIsError ==
    (/\ CreateDecoded
     /\ is_none(reply.value[1].errors)
     /\ is_some(reply.value[1].data)
     /\ reply.value[1].data[1].newService.apiKeys = << >>)
        => (ReturnedErr /\ result[1].error.message = NO_API_KEY)

\* C4: a decoded response whose `errors` field is present is never turned
\* into an Ok result, by either domain operation, whatever `data` holds.
C4_ErrorsNeverOk ==
    (reply.kind = "decoded" /\ is_some(reply.value[1].errors)) => ~ReturnedOk

\* C5: when the decoded membership response has `data.me` present,
\* get_org_memberships returns Ok with exactly the set of the account ids
\* that occur in the membership list: each of them, nothing else, repeated
\* ids once, and the empty set for the empty list.
C5_MembershipsAreDistinctIds ==
    (GetDecoded /\ ~MeAbsent(reply.value[1]))
        => LET list == reply.value[1].data[1].me[1].memberships
           IN  /\ ReturnedOk
               /\ \A i \in 1..Len(list) : list[i].account.id \in result[1].value
               /\ \A x \in result[1].value :
                      \E i \in 1..Len(list) : list[i].account.id = x
               /\ Cardinality(result[1].value)
                      = Cardinality({list[i].account.id : i \in 1..Len(list)})
               /\ (list = << >> => result[1].value = {})

C5_Witness ==
    /\ GetDecoded /\ ~MeAbsent(reply.value[1]) /\ ReturnedOk
    /\ LET list == reply.value[1].data[1].me[1].memberships
       IN  /\ Len(list) = 3
           /\ list[1] = list[3]
           /\ list[1] # list[2]
           /\ Cardinality(result[1].value) = 2

\* number of characters before message i in the joined text
RECURSIVE OffsetOf(_, _)
OffsetOf(errors, i) ==
    IF i = 1 THEN 0
    ELSE OffsetOf(errors, i - 1) + Len(errors[i - 1].message) + 1

\* C6: when the create-graph response carries errors m1..mn with n >= 1,
\* create_new_graph returns one Err with user_error false whose message is
\* m1..mn in their order, each two neighbours separated by one newline.
C6_ErrorsJoinedByNewline ==
    (CreateDecoded /\ is_some(reply.value[1].errors)
                   /\ Len(reply.value[1].errors[1]) >= 1)
        => LET errors == reply.value[1].errors[1]
               n == Len(errors)
           IN  /\ ReturnedErr
               /\ result[1].error.user_error = FALSE
               /\ LET text == result[1].error.message
                  IN  /\ Len(text) = OffsetOf(errors, n + 1) - 1
                      /\ \A i \in 1..n :
                            LET from == OffsetOf(errors, i)
                                m == errors[i].message
                            IN  /\ SubSeq(text, from + 1, from + Len(m)) = m
                                /\ i < n => text[from + Len(m) + 1] = "\n"

C6_Witness ==
    /\ CreateDecoded /\ ReturnedErr
    /\ is_some(reply.value[1].errors)
    /\ LET errors == reply.value[1].errors[1]
       IN  /\ Len(errors) = 2
           /\ errors[1].message = <<"m">>
           /\ errors[2].message = <<"\n">>
           /\ result[1].error.message = <<"m", "\n", "\n">>

\* C7: when the create-graph response has no errors, data present and a
\* non-empty apiKeys list, create_new_graph returns Ok with the token of the
\* first key of the list, unchanged.
C7_FirstTokenReturned ==
    (/\ CreateDecoded
     /\ is_none(reply.value[1].errors)
     /\ is_some(reply.value[1].data)
     /\ reply.value[1].data[1].newService.apiKeys # << >>)
        => (/\ ReturnedOk
            /\ result[1].value = reply.value[1].data[1].newService.apiKeys[1].token)

C7_Witness ==
    /\ CreateDecoded /\ ReturnedOk
    /\ is_none(reply.value[1].errors)
    /\ is_some(reply.value[1].data)
    /\ LET apiKeys == reply.value[1].data[1].newService.apiKeys
       IN  /\ Len(apiKeys) = 2
           /\ apiKeys[1].token # apiKeys[2].token
           /\ result[1].value = apiKeys[1].token

\* C8: the body execute_operation sends decodes to a JSON object whose
\* `query` is the operation text and whose `variables` is a string that
\* itself decodes to the variables object (graphID and accountID as given).
C8_EnvelopeRoundTrip ==
    (op = "create_new_graph" /\ pc = "awaiting")
        => /\ is_some(body)
           /\ LET d == json_from_str(body[1])
              IN  /\ d.ok
                  /\ Len(d.val) = 2
                  /\ has_key(d.val, KEY_QUERY)
                  /\ get_key(d.val, KEY_QUERY) = JsonString(CREATE_GRAPH_QUERY)
                  /\ has_key(d.val, KEY_VARIABLES)
                  /\ get_key(d.val, KEY_VARIABLES).type = "string"
                  /\ LET v == json_from_str(get_key(d.val, KEY_VARIABLES).str)
                     IN  /\ v.ok
                         /\ Len(v.val) = 2
                         /\ has_key(v.val, KEY_GRAPH_ID)
                         /\ get_key(v.val, KEY_GRAPH_ID) = JsonString(args.graph_id)
                         /\ has_key(v.val, KEY_ACCOUNT_ID)
                         /\ get_key(v.val, KEY_ACCOUNT_ID)
                                = JsonString(args.account_id)

C8_Witness ==
    /\ op = "create_new_graph"
    /\ pc = "awaiting"
    /\ args.graph_id = <<QUOTE>>
    /\ args.account_id = <<BACKSLASH>>
    /\ json_from_str(body[1]).ok

C10_ExactlyOnePost ==
    /\ Len(requests) <= 1
    /\ op # "none"
        => /\ Len(requests) = 1
           /\ requests[1].method = "POST"
           /\ requests[1].url = endpoint_url

C10_Witness ==
    /\ op = "create_new_graph"
    /\ ReturnedErr
    /\ reply.kind = "decoded"
    /\ is_none(reply.value[1].data)
    /\ Len(requests) = 1

====
